---- MODULE Spec2Model ----
(***************************************************************************)
(* kustomizily: a multi-document YAML stream is split into documents,      *)
(* every document is routed to a directory and accumulated, and Build      *)
(* resolves a unique filename for every artifact and pushes the files and  *)
(* one kustomization.yaml per directory to the sink.                       *)
(*                                                                         *)
(* Strings are sequences of one-character strings, so that the byte-wise   *)
(* helpers of the code (trimPrefix, longestCommonPrefix, the splitter) are *)
(* computed as the code computes them.  Byte payloads that the code only   *)
(* copies (Raw, file contents) are opaque TLA+ strings.                    *)
(***************************************************************************)
EXTENDS Integers, Sequences, FiniteSets, TLC

\* ------------------------------------------------------------------ bounds
\* longest document stream drawn by Init of Spec
MaxDocs == 3
\* longest byte stream drawn by ScanInit
MaxStream == 8

\* ----------------------------------------------------------------- strings
\* the characters of the model in ASCII order (what sort.Strings compares)
AsciiOrder ==
  << "\n", " ", "-", ".", "/", "0", "1", "2", "3", "4", "5", "6", "7", "8", "9",
     ":", "=", "A", "B", "C", "D", "E", "F", "G", "H", "I", "J", "K", "L", "M",
     "N", "O", "P", "Q", "R", "S", "T", "U", "V", "W", "X", "Y", "Z", "_",
     "a", "b", "c", "d", "e", "f", "g", "h", "i", "j", "k", "l", "m", "n", "o",
     "p", "q", "r", "s", "t", "u", "v", "w", "x", "y", "z" >>

CharRank(c) == CHOOSE i \in 1..Len(AsciiOrder) : AsciiOrder[i] = c

\* Go's string comparison (bytewise lexicographic), used by sort.Strings
StrLess(a, b) ==
  \E i \in 1..(Len(a) + 1) :
    /\ \A j \in 1..(i - 1) : j <= Len(b) /\ a[j] = b[j]
    /\ \/ i = Len(a) + 1 /\ Len(b) >= i
       \/ i <= Len(a) /\ i <= Len(b) /\ CharRank(a[i]) < CharRank(b[i])

RECURSIVE SortStrings(_)
SortStrings(S) ==
  IF S = {} THEN << >>
  ELSE LET m == CHOOSE x \in S : \A y \in S \ {x} : StrLess(x, y)
       IN  << m >> \o SortStrings(S \ {m})

UpperChars ==
  << "A", "B", "C", "D", "E", "F", "G", "H", "I", "J", "K", "L", "M",
     "N", "O", "P", "Q", "R", "S", "T", "U", "V", "W", "X", "Y", "Z" >>

LowerChars ==
  << "a", "b", "c", "d", "e", "f", "g", "h", "i", "j", "k", "l", "m",
     "n", "o", "p", "q", "r", "s", "t", "u", "v", "w", "x", "y", "z" >>

\* strings.ToLower
ToLower(s) ==
  [i \in 1..Len(s) |->
     IF \E k \in 1..26 : UpperChars[k] = s[i]
     THEN LowerChars[CHOOSE k \in 1..26 : UpperChars[k] = s[i]]
     ELSE s[i]]

\* strings.ReplaceAll for a one-character pattern
ReplaceAll(s, old, new) == [i \in 1..Len(s) |-> IF s[i] = old THEN new ELSE s[i]]

\* strings.Contains for a one-character pattern
Contains(s, c) == \E i \in 1..Len(s) : s[i] = c

HasSuffix(s, suf) ==
  /\ Len(s) >= Len(suf)
  /\ SubSeq(s, Len(s) - Len(suf) + 1, Len(s)) = suf

TrimSuffix(s, suf) == IF HasSuffix(s, suf) THEN SubSeq(s, 1, Len(s) - Len(suf)) ELSE s

Min(a, b) == IF a < b THEN a ELSE b

\* ------------------------------------------------ filename helper functions
charEqual(a, b) ==
  \/ a = b
  \/ a = "-" /\ b = "_"
  \/ a = "_" /\ b = "-"

trimPrefix(s, prefix) ==
  IF Len(s) < Len(prefix) THEN s
  ELSE IF \E i \in 1..Len(prefix) : ~charEqual(s[i], prefix[i]) THEN s
  ELSE SubSeq(s, Len(prefix) + 1, Len(s))

\* mutant: no separator is ever found
indexOfSeparatorNone(s) == -1

\* the returned value is the 0-based index of the code: idx + 1, or -1
indexOfSeparator(s) ==
  IF \E i \in 1..Len(s) : s[i] \in {"-", "_"}
  THEN CHOOSE i \in 1..Len(s) :
         /\ s[i] \in {"-", "_"}
         /\ \A j \in (i + 1)..Len(s) : s[j] \notin {"-", "_"}
  ELSE -1

longestCommonPrefix(strs) ==
  IF Len(strs) = 0 THEN << >>
  ELSE IF Len(strs) = 1 THEN << >>
  ELSE
    LET minLen == CHOOSE n \in {Len(strs[k]) : k \in 1..Len(strs)} :
                    \A k \in 1..Len(strs) : n <= Len(strs[k])
        differs(i) == \E k \in 2..Len(strs) : ~charEqual(strs[k][i], strs[1][i])
    IN  IF \E i \in 1..minLen : differs(i)
        THEN LET i == CHOOSE i \in 1..minLen :
                        differs(i) /\ \A j \in 1..(i - 1) : ~differs(j)
             IN  SubSeq(strs[1], 1, i - 1)
        ELSE SubSeq(strs[1], 1, minLen)

\* ------------------------------------------------------- string literals
EmptyStr == << >>

sKustomizationYaml == << "k", "u", "s", "t", "o", "m", "i", "z", "a", "t", "i", "o", "n", ".", "y", "a", "m", "l" >>

sYaml == << ".", "y", "a", "m", "l" >>

sCrd == << "c", "r", "d" >>

sV1 == << "v", "1" >>

sSlashV1 == << "/", "v", "1" >>

sConfigMap == << "C", "o", "n", "f", "i", "g", "M", "a", "p" >>

sSecret == << "S", "e", "c", "r", "e", "t" >>

sCRDKind == << "C", "u", "s", "t", "o", "m", "R", "e", "s", "o", "u", "r", "c", "e", "D", "e", "f", "i", "n", "i", "t", "i", "o", "n" >>

sCRDApi == << "a", "p", "i", "e", "x", "t", "e", "n", "s", "i", "o", "n", "s", ".", "k", "8", "s", ".", "i", "o", "/", "v", "1" >>

sDeployment == << "D", "e", "p", "l", "o", "y", "m", "e", "n", "t" >>

sService == << "S", "e", "r", "v", "i", "c", "e" >>

sJob == << "J", "o", "b" >>

sAppsV1 == << "a", "p", "p", "s", "/", "v", "1" >>

sExtV1beta1 == << "e", "x", "t", "e", "n", "s", "i", "o", "n", "s", "/", "v", "1", "b", "e", "t", "a", "1" >>

sBatchV1 == << "b", "a", "t", "c", "h", "/", "v", "1" >>

\* ---------------------------------------------------------------- documents
\* a Go map[string]... with no entry
EmptyMap == << >>

\* map lookup: a missing key reads as the zero value ""
Lookup(m, k) == IF k \in DOMAIN m THEN m[k] ELSE EmptyStr

lblInstance == "app.kubernetes.io/instance"

lblQComponent == "app.kubernetes.io/component"

lblComponent == "component"

lblQName == "app.kubernetes.io/name"

lblApp == "app"

\* the zero value of k8sObject, plus what the model records of the document
\* text it was decoded from:
\*   yamlOK    yaml.Unmarshal succeeds on the text
\*   tooLong   the text is at least as long as the scanner's maximum token
\*   dashTail  the text ends with a line that starts with "---", has further
\*             characters and no newline
ZeroObject ==
  [ Kind |-> EmptyStr, APIVersion |-> EmptyStr, Name |-> EmptyStr,
    Namespace |-> EmptyStr, Labels |-> EmptyMap, Annotations |-> EmptyMap,
    Group |-> EmptyStr, Plural |-> EmptyStr,
    Data |-> EmptyMap, BinaryData |-> EmptyMap, StringData |-> EmptyMap,
    Immutable |-> FALSE, Type |-> EmptyStr, Raw |-> "",
    yamlOK |-> TRUE, tooLong |-> FALSE, dashTail |-> FALSE ]

Object(fields) == fields @@ ZeroObject

\* base64.StdEncoding.DecodeString on the encodings of the model: the
\* decoded bytes, or no entry when the input is not valid base64
Base64Table == ("aGk=" :> "hi") @@ ("cHc=" :> "pw")

Base64Valid(v) == v \in DOMAIN Base64Table

Base64Decode(v) == Base64Table[v]

docDepA ==
  Object([Kind |-> sDeployment, APIVersion |-> sAppsV1, Name |-> << "s", "-", "d" >>,
          Labels |-> (lblApp :> << "s" >>), Raw |-> "depA"])

docDepB ==
  Object([Kind |-> sDeployment, APIVersion |-> sAppsV1, Name |-> << "s", "-", "e" >>,
          Labels |-> (lblApp :> << "s" >>), Raw |-> "depB"])

docDepOld ==
  Object([Kind |-> sDeployment, APIVersion |-> sExtV1beta1, Name |-> << "s", "-", "d" >>,
          Labels |-> (lblApp :> << "s" >>), Raw |-> "depOld"])

docSvc ==
  Object([Kind |-> sService, APIVersion |-> sV1, Name |-> << "s", "-", "d" >>,
          Labels |-> (lblApp :> << "s" >>) @@ (lblInstance :> << "s" >>), Raw |-> "svc"])

docCrd ==
  Object([Kind |-> sCRDKind, APIVersion |-> sCRDApi, Name |-> << "w", ".", "g" >>,
          Labels |-> (lblApp :> << "s" >>), Group |-> << "g" >>, Plural |-> << "w" >>,
          Raw |-> "crd"])

docCm ==
  Object([Kind |-> sConfigMap, APIVersion |-> sV1, Name |-> << "c" >>,
          Labels |-> ("x" :> << "1" >>) @@ ("y" :> << "2" >>),
          Data |-> (<< "s" >> :> "S") @@ (<< "k" >> :> "K"), Raw |-> "cm"])

docSec ==
  Object([Kind |-> sSecret, APIVersion |-> sV1, Name |-> << "t" >>,
          Data |-> (<< "k" >> :> "aGk="), StringData |-> (<< "p" >> :> "pw"),
          Type |-> << "O" >>, Raw |-> "sec"])

docBadCm ==
  Object([Kind |-> sConfigMap, APIVersion |-> sV1, Name |-> << "b" >>,
          Labels |-> (lblApp :> << "s" >>),
          Data |-> (<< "k" >> :> "K"), BinaryData |-> (<< "z" >> :> "!!"), Raw |-> "badcm"])

docBadSec ==
  Object([Kind |-> sSecret, APIVersion |-> sV1, Name |-> << "u" >>,
          Data |-> (<< "k" >> :> "!!"), Raw |-> "badsec"])

\* decodes, but has no kind
docNoise ==
  Object([APIVersion |-> sV1, Name |-> << "n" >>, Raw |-> "noise"])

\* only whitespace: nothing is left after bytes.TrimSpace
docBlank == Object([Raw |-> ""])

docMalformed == Object([yamlOK |-> FALSE, Raw |-> "malformed"])

docBig ==
  Object([Kind |-> sService, APIVersion |-> sV1, Name |-> << "b", "i", "g" >>,
          tooLong |-> TRUE, Raw |-> "big"])

docTail ==
  Object([Kind |-> sJob, APIVersion |-> sBatchV1, Name |-> << "j" >>,
          dashTail |-> TRUE, Raw |-> "tail"])

Universe ==
  { docDepA, docDepB, docDepOld, docSvc, docCrd, docCm, docSec, docBadCm,
    docBadSec, docNoise, docBlank, docMalformed, docBig, docTail }

\* ------------------------------------------------------------------ routing
\* mutant: the bare component label wins over the qualified one
getTargetDirBareFirst(obj) ==
  IF obj.APIVersion = sCRDApi /\ obj.Kind = sCRDKind THEN sCrd
  ELSE IF Lookup(obj.Labels, lblComponent) # EmptyStr THEN Lookup(obj.Labels, lblComponent)
  ELSE IF Lookup(obj.Labels, lblQComponent) # EmptyStr THEN Lookup(obj.Labels, lblQComponent)
  ELSE IF Lookup(obj.Labels, lblQName) # EmptyStr THEN Lookup(obj.Labels, lblQName)
  ELSE IF Lookup(obj.Labels, lblApp) # EmptyStr THEN Lookup(obj.Labels, lblApp)
  ELSE EmptyStr

getTargetDir(obj) ==
  IF obj.APIVersion = sCRDApi /\ obj.Kind = sCRDKind THEN sCrd
  ELSE IF Lookup(obj.Labels, lblQComponent) # EmptyStr THEN Lookup(obj.Labels, lblQComponent)
  ELSE IF Lookup(obj.Labels, lblComponent) # EmptyStr THEN Lookup(obj.Labels, lblComponent)
  ELSE IF Lookup(obj.Labels, lblQName) # EmptyStr THEN Lookup(obj.Labels, lblQName)
  ELSE IF Lookup(obj.Labels, lblApp) # EmptyStr THEN Lookup(obj.Labels, lblApp)
  ELSE EmptyStr

\* ------------------------------------------------------ directory aggregators
newKustomizationBuilder ==
  [ k8sObjects |-> << >>, configMapObjects |-> << >>, secretObjects |-> << >>,
    resources |-> << >> ]

\* NewBuilder: the root directory "" exists from the start
NewBuilderDirs == (EmptyStr :> newKustomizationBuilder)

\* Builder.getKustomization: the directory map after the lookup, which
\* creates the directory and records it on the root on first use
getKustomization(ds, obj) ==
  LET dir == getTargetDir(obj)
  IN  IF dir \in DOMAIN ds THEN ds
      ELSE LET ds1 == (dir :> newKustomizationBuilder) @@ ds
           IN  [ds1 EXCEPT ![EmptyStr].resources = Append(@, dir)]

\* the result of a handler: the error it returns and the directory map
Handled(e, ds) == [err |-> e, dirs |-> ds]

handleConfigMap(ds, obj) ==
  IF \E k \in DOMAIN obj.BinaryData : ~Base64Valid(obj.BinaryData[k])
  THEN Handled("base64", ds)
  ELSE
    LET files == [k \in DOMAIN obj.Data \cup DOMAIN obj.BinaryData |->
                    IF k \in DOMAIN obj.BinaryData
                    THEN Base64Decode(obj.BinaryData[k])
                    ELSE obj.Data[k]]
        fileGroup == [k8sObject |-> obj, files |-> files]
        ds1 == getKustomization(ds, obj)
        dir == getTargetDir(obj)
    IN  Handled("nil", [ds1 EXCEPT ![dir].configMapObjects = Append(@, fileGroup)])

handleSecret(ds, obj) ==
  IF \E k \in DOMAIN obj.Data : ~Base64Valid(obj.Data[k])
  THEN Handled("base64", ds)
  ELSE
    LET files == [k \in DOMAIN obj.Data \cup DOMAIN obj.StringData |->
                    IF k \in DOMAIN obj.StringData
                    THEN obj.StringData[k]
                    ELSE Base64Decode(obj.Data[k])]
        fileGroup == [k8sObject |-> obj, files |-> files]
        ds1 == getKustomization(ds, obj)
        dir == getTargetDir(obj)
    IN  Handled("nil", [ds1 EXCEPT ![dir].secretObjects = Append(@, fileGroup)])

handleGenericResource(ds, obj) ==
  LET ds1 == getKustomization(ds, obj)
      dir == getTargetDir(obj)
  IN  Handled("nil", [ds1 EXCEPT ![dir].k8sObjects = Append(@, obj)])

handleResourceType(ds, obj) ==
  IF obj.APIVersion = sV1 /\ obj.Kind = sConfigMap THEN handleConfigMap(ds, obj)
  ELSE IF obj.APIVersion = sV1 /\ obj.Kind = sSecret THEN handleSecret(ds, obj)
  ELSE handleGenericResource(ds, obj)

\* parseYAMLObject: "err" a decode error, "skip" a document without
\* identity, "obj" a resource
parseYAMLObject(doc) ==
  IF ~doc.yamlOK THEN "err"
  ELSE IF doc.Kind = EmptyStr \/ doc.APIVersion = EmptyStr \/ doc.Name = EmptyStr THEN "skip"
  ELSE "obj"

\* --------------------------------------------------------- naming strategies
getShortName(obj) ==
  LET instance == Lookup(obj.Labels, lblInstance)
      name == IF instance # EmptyStr
              THEN trimPrefix(obj.Name, instance \o << "-" >>)
              ELSE obj.Name
  IN  ReplaceAll(name, ":", "_")

getCRDFilename(obj) ==
  IF obj.Group = EmptyStr \/ obj.Plural = EmptyStr THEN EmptyStr
  ELSE obj.Group \o << "_" >> \o obj.Plural \o sYaml

getK8sObjectShortFilenameByKind(obj) == ToLower(obj.Kind) \o sYaml

getK8sObjectShortFilenameByName(obj) == getShortName(obj) \o sYaml

getK8sObjectShortFilenameByNameAndKind(obj) ==
  getShortName(obj) \o << "_" >> \o ToLower(obj.Kind) \o sYaml

getK8sObjectFilenameFull(obj) ==
  LET kind0 == ToLower(obj.Kind)
      kind == IF ~Contains(obj.APIVersion, ".") /\ HasSuffix(obj.APIVersion, sSlashV1)
              THEN TrimSuffix(obj.APIVersion, sSlashV1) \o << "_" >> \o kind0
              ELSE IF obj.APIVersion # sV1
              THEN ReplaceAll(obj.APIVersion, "/", "_") \o << "_" >> \o kind0
              ELSE kind0
  IN  getShortName(obj) \o << "_" >> \o kind \o sYaml

getGeneratorObjectShortFilenameByKey(obj, key) == key

getGeneratorObjectShortFilenameByKeyAndKind(obj, key) ==
  ToLower(obj.Kind) \o << "_" >> \o key

getGeneratorObjectFilenameByKeyAndName(obj, key) ==
  getShortName(obj) \o << "_" >> \o key

getGeneratorObjectFilenameFull(obj, key) ==
  getShortName(obj) \o << "_" >> \o ToLower(obj.Kind) \o << "_" >> \o key

\* A filename function value: the position of a strategy in its list and the
\* prefix that removeK8sObjectsPrefix / removeGeneratorObjectPrefix trims from
\* its result (empty for the strategy itself).  id 0 is the nil function.
FilenameFunc(i, prefix) == [id |-> i, trim |-> prefix]

NilFunc == FilenameFunc(0, EmptyStr)

\* funcs of selectUniqueFilenameFuncForK8sObjects, in list order
K8sObjectFuncs(i, obj) ==
  CASE i = 1 -> getCRDFilename(obj)
    [] i = 2 -> getK8sObjectShortFilenameByKind(obj)
    [] i = 3 -> getK8sObjectShortFilenameByName(obj)
    [] i = 4 -> getK8sObjectShortFilenameByNameAndKind(obj)
    [] i = 5 -> getK8sObjectFilenameFull(obj)

\* funcs of selectUniqueFilenameFuncForFiles, in list order
FilesFuncs(i, obj, key) ==
  CASE i = 1 -> getGeneratorObjectShortFilenameByKey(obj, key)
    [] i = 2 -> getGeneratorObjectShortFilenameByKeyAndKind(obj, key)
    [] i = 3 -> getGeneratorObjectFilenameByKeyAndName(obj, key)
    [] i = 4 -> getGeneratorObjectFilenameFull(obj, key)

NumK8sObjectFuncs == 5

NumFilesFuncs == 4

\* calling a filename function value (removeK8sObjectsPrefix's closure)
removeK8sObjectsPrefix(fun, obj) == trimPrefix(K8sObjectFuncs(fun.id, obj), fun.trim)

\* removeGeneratorObjectPrefix's closure
removeGeneratorObjectPrefix(fun, obj, key) ==
  trimPrefix(FilesFuncs(fun.id, obj, key), fun.trim)

\* ------------------------------------------------------- filename resolution
Range(s) == {s[i] : i \in 1..Len(s)}

\* mutant: the accepted names are not reserved
fillMapNone(uniq, items) == uniq

fillMap(uniq, items) == uniq \cup Range(items)

\* mutant: no check against the reserved names
namesAcceptedNoReserved(items, uniq) ==
  \A i \in 1..Len(items) :
    /\ items[i] # EmptyStr
    /\ \A j \in 1..(i - 1) : items[j] # items[i]

\* the three rejections of the loop body of isUniqueFilenameFunc*: an empty
\* name, a reserved name, a name met earlier in the batch
namesAccepted(items, uniq) ==
  \A i \in 1..Len(items) :
    /\ items[i] # EmptyStr
    /\ items[i] \notin uniq
    /\ \A j \in 1..(i - 1) : items[j] # items[i]

\* ([]string, bool) of the code; items is nil when ok is false
isUniqueFilenameFuncForK8sObjects(objects, uniq, fun) ==
  LET items == [i \in 1..Len(objects) |-> removeK8sObjectsPrefix(fun, objects[i])]
      ok == namesAccepted(items, uniq)
  IN  [ok |-> ok, items |-> IF ok THEN items ELSE << >>]

\* the orders in which `range obj.files` can visit the keys of each object
Perms(S) ==
  {p \in [1..Cardinality(S) -> S] : \A i, j \in 1..Cardinality(S) : p[i] = p[j] => i = j}

KeyOrders(objects) ==
  {ord \in [1..Len(objects) -> UNION {Perms(DOMAIN objects[i].files) : i \in 1..Len(objects)}] :
     \A i \in 1..Len(objects) : ord[i] \in Perms(DOMAIN objects[i].files)}

RECURSIVE FilesItems(_, _, _, _)
FilesItems(objects, ord, fun, i) ==
  IF i > Len(objects) THEN << >>
  ELSE [n \in 1..Len(ord[i]) |->
          removeGeneratorObjectPrefix(fun, objects[i].k8sObject, ord[i][n])]
       \o FilesItems(objects, ord, fun, i + 1)

\* ord is the key order the runtime happens to use for the map iteration
isUniqueFilenameFunc(objects, uniq, fun, ord) ==
  LET items == FilesItems(objects, ord, fun, 1)
      ok == namesAccepted(items, uniq)
  IN  [ok |-> ok, items |-> IF ok THEN items ELSE << >>]

\* the value returned by a selection, with the reserved set it leaves behind
Selected(f, u) == [fun |-> f, uniq |-> u]

RECURSIVE selectK8sFrom(_, _, _)
selectK8sFrom(objects, uniq, i) ==
  IF i > NumK8sObjectFuncs THEN Selected(NilFunc, uniq)
  ELSE
    LET fun == FilenameFunc(i, EmptyStr)
        r == isUniqueFilenameFuncForK8sObjects(objects, uniq, fun)
        prefix == longestCommonPrefix(r.items)
        index == indexOfSeparator(prefix)
        newFunc == FilenameFunc(i, SubSeq(prefix, 1, index))
        r2 == isUniqueFilenameFuncForK8sObjects(objects, uniq, newFunc)
    IN  IF ~r.ok THEN selectK8sFrom(objects, uniq, i + 1)
        ELSE IF i = 1 THEN Selected(fun, fillMap(uniq, r.items))
        ELSE IF prefix = EmptyStr THEN Selected(fun, fillMap(uniq, r.items))
        ELSE IF index <= 0 THEN Selected(fun, fillMap(uniq, r.items))
        ELSE IF r2.ok THEN Selected(newFunc, fillMap(uniq, r2.items))
        ELSE Selected(fun, fillMap(uniq, r.items))

\* mutant: the definition-kind strategy is never tried
selectUniqueFilenameFuncForK8sObjectsFromSecond(objects, uniq) ==
  selectK8sFrom(objects, uniq, 2)

selectUniqueFilenameFuncForK8sObjects(objects, uniq) == selectK8sFrom(objects, uniq, 1)

RECURSIVE selectFilesFrom(_, _, _, _)
selectFilesFrom(objects, uniq, ord, i) ==
  IF i > NumFilesFuncs THEN Selected(NilFunc, uniq)
  ELSE
    LET fun == FilenameFunc(i, EmptyStr)
        r == isUniqueFilenameFunc(objects, uniq, fun, ord)
        prefix == longestCommonPrefix(r.items)
        index == indexOfSeparator(prefix)
        newFunc == FilenameFunc(i, SubSeq(prefix, 1, index))
        r2 == isUniqueFilenameFunc(objects, uniq, newFunc, ord)
    IN  IF ~r.ok THEN selectFilesFrom(objects, uniq, ord, i + 1)
        ELSE IF prefix = EmptyStr THEN Selected(fun, fillMap(uniq, r.items))
        ELSE IF index <= 0 THEN Selected(fun, fillMap(uniq, r.items))
        ELSE IF r2.ok THEN Selected(newFunc, fillMap(uniq, r2.items))
        ELSE Selected(fun, fillMap(uniq, r.items))

selectUniqueFilenameFuncForFiles(objects, uniq, ord) == selectFilesFrom(objects, uniq, ord, 1)

\* -------------------------------------------------------------------- state
VARIABLES
  input,       \* the documents of the input stream, in order
  pos,         \* how many documents the scanner has consumed
  scanErr,     \* scanner.Err(): "nil" or "ErrTooLong"
  pc,          \* where main is: "process", "build", "exit0", "exit1"
  err,         \* the error main prints: "nil", "yaml", "base64", "naming", "sink"
  dirs,        \* Builder.dirs: directory name -> kustomizationBuilder
  sortedDirs,  \* Builder.Build: the directories in sorted order
  di,          \* Builder.Build: index of the directory being built
  phase,       \* kustomizationBuilder.Build: the statement reached
  gen,         \* writeGenerators: generatorType of the running call
  oi,          \* index of the object in the running loop
  keysLeft,    \* writeFiles: keys of obj.files not yet visited
  uniq,        \* kustomizationBuilder.Build: the reserved names
  funcs,       \* the three selected filename functions
  buf,         \* the manifest being rendered, a sequence of lines
  puts,        \* every call of the sink, in order: dir, name, data, ok
  run,         \* 1 for the run, 2 for its repetition on the same input
  prev,        \* the sink calls of run 1, kept for comparison in run 2
  log,         \* what this Builder has done so far: "ingest" for a resource
               \* Process added, "finalize" for a Build that began
  stream,      \* ScanSpec: the bytes of the input stream
  rd,          \* ScanSpec: the bytes the reader has not delivered yet
  sbuf,        \* ScanSpec: the scanner's buffered, unconsumed bytes
  eof,         \* ScanSpec: the reader has reported io.EOF
  tokens,      \* ScanSpec: the tokens Scan has returned, in order
  cuts,        \* ScanSpec: the bytes skipped after each token
  dropped,     \* ScanSpec: the buffered bytes discarded when Scan stopped
  robj,        \* RouteSpec: the resource being routed
  rdir,        \* RouteSpec: the directory getTargetDir returned
  rname        \* ShortSpec: the short name getShortName returned

procVars == << input, pos, scanErr, dirs >>

buildVars == << sortedDirs, di, phase, gen, oi, keysLeft, uniq, funcs, buf >>

auxVars == << stream, rd, sbuf, eof, tokens, cuts, dropped, robj, rdir, rname >>

\* ------------------------------------------------------------------ Process
\* what the next scanner.Scan() does, given the documents left in the
\* stream (the byte-level behaviour is that of ScanSpec below): it returns a
\* token, or stops at the end of the stream ("eof"), on a document that does
\* not fit the buffer ("tooLong"), or on an unterminated last line that
\* starts with the separator ("dropped")
ScanOutcome(in, p) ==
  IF p >= Len(in) THEN "eof"
  ELSE IF in[p + 1].tooLong THEN "tooLong"
  ELSE IF in[p + 1].dashTail /\ p + 1 = Len(in) THEN "dropped"
  ELSE "token"

NoFuncs == [k8s |-> NilFunc, cm |-> NilFunc, sec |-> NilFunc]

BuildIdle ==
  /\ sortedDirs = << >>
  /\ di = 0
  /\ phase = "none"
  /\ gen = "none"
  /\ oi = 0
  /\ keysLeft = {}
  /\ uniq = {}
  /\ funcs = NoFuncs
  /\ buf = << >>

ScanIdle ==
  /\ stream = << >>
  /\ rd = << >>
  /\ sbuf = << >>
  /\ eof = FALSE
  /\ tokens = << >>
  /\ cuts = << >>
  /\ dropped = << >>

RouteIdle ==
  /\ robj = ZeroObject
  /\ rdir = EmptyStr
  /\ rname = EmptyStr

Streams == UNION {[1..n -> Universe] : n \in 0..MaxDocs}

Init ==
  /\ input \in Streams
  /\ pos = 0
  /\ scanErr = "nil"
  /\ pc = "process"
  /\ err = "nil"
  /\ dirs = NewBuilderDirs
  /\ BuildIdle
  /\ puts = << >>
  /\ run = 1
  /\ prev = << >>
  /\ log = << >>
  /\ ScanIdle
  /\ RouteIdle

\* one iteration of the loop of Builder.Process
ProcessDocument ==
  /\ pc = "process"
  /\ ScanOutcome(input, pos) = "token"
  /\ pos' = pos + 1
  /\ LET data == input[pos + 1]
         parsed == parseYAMLObject(data)
         h == handleResourceType(dirs, data)
     IN  IF data.Raw = "" THEN
           UNCHANGED << pc, err, dirs >>
         ELSE IF parsed = "err" THEN
           /\ pc' = "exit1"
           /\ err' = "yaml"
           /\ UNCHANGED dirs
         ELSE IF parsed = "skip" THEN
           UNCHANGED << pc, err, dirs >>
         ELSE IF h.err # "nil" THEN
           /\ pc' = "exit1"
           /\ err' = h.err
           /\ UNCHANGED dirs
         ELSE
           /\ dirs' = h.dirs
           /\ UNCHANGED << pc, err >>
  /\ log' = IF dirs' # dirs THEN Append(log, "ingest") ELSE log
  /\ UNCHANGED << input, scanErr, puts, run, prev >>
  /\ UNCHANGED buildVars
  /\ UNCHANGED auxVars

\* scanner.Scan() returns false: the loop ends and Process returns nil,
\* whatever scanner.Err() holds; main goes on to Build
ProcessReturn ==
  /\ pc = "process"
  /\ ScanOutcome(input, pos) # "token"
  /\ scanErr' = IF ScanOutcome(input, pos) = "tooLong" THEN "ErrTooLong" ELSE "nil"
  /\ pc' = "build"
  /\ phase' = "begin"
  /\ UNCHANGED << input, pos, err, dirs, puts, run, prev, log >>
  /\ UNCHANGED << sortedDirs, di, gen, oi, keysLeft, uniq, funcs, buf >>
  /\ UNCHANGED auxVars

\* -------------------------------------------------------------------- Build
\* one call of the sink (writeFile), with what it returned
Put(d, n, bytes, ok) == [dir |-> d, name |-> n, data |-> bytes, ok |-> ok]

\* the bytes of a resource or of a file entry, as the sink receives them
Bytes(b) == << << "raw", b >> >>

\* the first lines of every manifest
ManifestHeader == << << "apiVersion: kustomize.config.k8s.io/v1beta1" >>, << "kind: Kustomization" >> >>

CurDir == sortedDirs[di]

CurK == dirs[CurDir]

\* mutant: the sub-directory references are not reserved
InitialUniqWithoutResources(k) == {sKustomizationYaml}

\* kustomizationBuilder.Build: the reserved names before any selection
InitialUniq(k) == {sKustomizationYaml} \cup Range(k.resources)

\* Builder.Build: the sorted directory list
BuildBegin ==
  /\ pc = "build"
  /\ phase = "begin"
  /\ sortedDirs' = SortStrings(DOMAIN dirs)
  /\ di' = 1
  /\ phase' = "resolve"
  /\ log' = Append(log, "finalize")
  /\ UNCHANGED << pc, err, puts, run, prev, gen, oi, keysLeft, uniq, funcs, buf >>
  /\ UNCHANGED procVars
  /\ UNCHANGED auxVars

\* kustomizationBuilder.Build up to its first write: the three selections,
\* in order, each on the reserved set the one before left behind; when a
\* selection returns nil the functions selected before it are kept and Build
\* returns the error
DirResolve ==
  /\ pc = "build"
  /\ phase = "resolve"
  /\ \E s1 \in {selectUniqueFilenameFuncForK8sObjects(CurK.k8sObjects, InitialUniq(CurK))} :
     \E cmOrd \in KeyOrders(CurK.configMapObjects) :
     \E s2 \in {selectUniqueFilenameFuncForFiles(CurK.configMapObjects, s1.uniq, cmOrd)} :
     \E secOrd \in KeyOrders(CurK.secretObjects) :
     \E s3 \in {selectUniqueFilenameFuncForFiles(CurK.secretObjects, s2.uniq, secOrd)} :
           IF s1.fun = NilFunc THEN
             /\ uniq' = s1.uniq
             /\ funcs' = NoFuncs
             /\ err' = "naming"
             /\ pc' = "exit1"
             /\ UNCHANGED << phase, buf >>
           ELSE IF s2.fun = NilFunc THEN
             /\ uniq' = s2.uniq
             /\ funcs' = [k8s |-> s1.fun, cm |-> NilFunc, sec |-> NilFunc]
             /\ err' = "naming"
             /\ pc' = "exit1"
             /\ UNCHANGED << phase, buf >>
           ELSE IF s3.fun = NilFunc THEN
             /\ uniq' = s3.uniq
             /\ funcs' = [k8s |-> s1.fun, cm |-> s2.fun, sec |-> NilFunc]
             /\ err' = "naming"
             /\ pc' = "exit1"
             /\ UNCHANGED << phase, buf >>
           ELSE
             /\ uniq' = s3.uniq
             /\ funcs' = [k8s |-> s1.fun, cm |-> s2.fun, sec |-> s3.fun]
             /\ buf' = ManifestHeader
             /\ phase' = "writeResources"
             /\ UNCHANGED << pc, err >>
  /\ UNCHANGED << puts, run, prev, log, sortedDirs, di, gen, oi, keysLeft >>
  /\ UNCHANGED procVars
  /\ UNCHANGED auxVars

\* mutant: the manifest is put before the files of the directory
WriteResourcesManifestFirst ==
  /\ pc = "build"
  /\ phase = "writeResources"
  /\ IF Len(CurK.resources) > 0 \/ Len(CurK.k8sObjects) > 0 THEN
       /\ buf' = buf \o << << "resources:" >> >>
                     \o [i \in 1..Len(CurK.resources) |-> << "resource", CurK.resources[i] >>]
       /\ IF Len(CurK.k8sObjects) > 0
          THEN phase' = "resourcesLoop" /\ UNCHANGED gen
          ELSE phase' = "writeGenerators" /\ gen' = "configMapGenerator"
     ELSE
       /\ phase' = "writeGenerators"
       /\ gen' = "configMapGenerator"
       /\ UNCHANGED buf
  /\ oi' = 1
  /\ puts' = Append(puts, Put(CurDir, sKustomizationYaml, buf, TRUE))
  /\ UNCHANGED << pc, err, run, prev, log, sortedDirs, di, keysLeft, uniq, funcs >>
  /\ UNCHANGED procVars
  /\ UNCHANGED auxVars

\* writeResources up to its loop over the objects
WriteResources ==
  /\ pc = "build"
  /\ phase = "writeResources"
  /\ IF Len(CurK.resources) > 0 \/ Len(CurK.k8sObjects) > 0 THEN
       /\ buf' = buf \o << << "resources:" >> >>
                     \o [i \in 1..Len(CurK.resources) |-> << "resource", CurK.resources[i] >>]
       /\ IF Len(CurK.k8sObjects) > 0
          THEN phase' = "resourcesLoop" /\ UNCHANGED gen
          ELSE phase' = "writeGenerators" /\ gen' = "configMapGenerator"
     ELSE
       /\ phase' = "writeGenerators"
       /\ gen' = "configMapGenerator"
       /\ UNCHANGED buf
  /\ oi' = 1
  /\ UNCHANGED << pc, err, puts, run, prev, log, sortedDirs, di, keysLeft, uniq, funcs >>
  /\ UNCHANGED procVars
  /\ UNCHANGED auxVars

\* mutant: the error of the sink is dropped and the loop goes on
WriteResourceObjectIgnoringError ==
  /\ pc = "build"
  /\ phase = "resourcesLoop"
  /\ LET obj == CurK.k8sObjects[oi]
         name == removeK8sObjectsPrefix(funcs.k8s, obj)
     IN  \E ok \in BOOLEAN :
           /\ puts' = Append(puts, Put(CurDir, name, Bytes(obj.Raw), ok))
           /\ buf' = Append(buf, << "resource", name >>)
           /\ oi' = IF oi < Len(CurK.k8sObjects) THEN oi + 1 ELSE 1
           /\ phase' = IF oi < Len(CurK.k8sObjects) THEN phase ELSE "writeGenerators"
           /\ gen' = IF oi < Len(CurK.k8sObjects) THEN gen ELSE "configMapGenerator"
           /\ UNCHANGED << pc, err >>
  /\ UNCHANGED << run, prev, log, sortedDirs, di, keysLeft, uniq, funcs >>
  /\ UNCHANGED procVars
  /\ UNCHANGED auxVars

\* one iteration of the loop of writeResources
WriteResourceObject ==
  /\ pc = "build"
  /\ phase = "resourcesLoop"
  /\ LET obj == CurK.k8sObjects[oi]
         name == removeK8sObjectsPrefix(funcs.k8s, obj)
     IN  \E ok \in BOOLEAN :
           /\ puts' = Append(puts, Put(CurDir, name, Bytes(obj.Raw), ok))
           /\ IF ok THEN
                /\ buf' = Append(buf, << "resource", name >>)
                /\ oi' = IF oi < Len(CurK.k8sObjects) THEN oi + 1 ELSE 1
                /\ phase' = IF oi < Len(CurK.k8sObjects) THEN phase ELSE "writeGenerators"
                /\ gen' = IF oi < Len(CurK.k8sObjects) THEN gen ELSE "configMapGenerator"
                /\ UNCHANGED << pc, err >>
              ELSE
                /\ pc' = "exit1"
                /\ err' = "sink"
                /\ UNCHANGED << buf, oi, phase, gen >>
  /\ UNCHANGED << run, prev, log, sortedDirs, di, keysLeft, uniq, funcs >>
  /\ UNCHANGED procVars
  /\ UNCHANGED auxVars

\* the objects and the filename function of the running writeGenerators call
GenObjects == IF gen = "configMapGenerator" THEN CurK.configMapObjects ELSE CurK.secretObjects

GenFunc == IF gen = "configMapGenerator" THEN funcs.cm ELSE funcs.sec

\* writeMapFields, visiting the keys in the order ord
writeMapFields(fieldName, data, ord) ==
  IF DOMAIN data # {}
  THEN << << "map", fieldName >> >> \o [i \in 1..Len(ord) |-> << "kv", ord[i], data[ord[i]] >>]
  ELSE << >>

\* one iteration of the loop of writeGenerators, up to the loop of writeFiles
WriteGeneratorObject ==
  /\ pc = "build"
  /\ phase = "writeGenerators"
  /\ oi <= Len(GenObjects)
  /\ LET obj == GenObjects[oi].k8sObject
     IN  \E annOrd \in Perms(DOMAIN obj.Annotations), lblOrd \in Perms(DOMAIN obj.Labels) :
           buf' = buf
             \o (IF oi = 1 THEN << << "generator", gen >> >> ELSE << >>)
             \o << << "name", obj.Name >> >>
             \o (IF obj.Namespace # EmptyStr THEN << << "namespace", obj.Namespace >> >> ELSE << >>)
             \o (IF gen = "secretGenerator" /\ obj.Type # EmptyStr
                 THEN << << "type", obj.Type >> >> ELSE << >>)
             \o << << "options:" >>, << "disableNameSuffixHash: true" >> >>
             \o writeMapFields("annotations", obj.Annotations, annOrd)
             \o writeMapFields("labels", obj.Labels, lblOrd)
             \o (IF obj.Immutable THEN << << "immutable: true" >> >> ELSE << >>)
             \o << << "files:" >> >>
  /\ keysLeft' = DOMAIN GenObjects[oi].files
  /\ phase' = "writeFiles"
  /\ UNCHANGED << pc, err, puts, run, prev, log, sortedDirs, di, gen, oi, uniq, funcs >>
  /\ UNCHANGED procVars
  /\ UNCHANGED auxVars

\* one iteration of the loop of writeFiles: the map iteration yields any key
\* not yet visited
WriteFile ==
  /\ pc = "build"
  /\ phase = "writeFiles"
  /\ \E key \in keysLeft, ok \in BOOLEAN :
       LET fo == GenObjects[oi]
           name == removeGeneratorObjectPrefix(GenFunc, fo.k8sObject, key)
       IN  /\ puts' = Append(puts, Put(CurDir, name, Bytes(fo.files[key]), ok))
           /\ IF ok THEN
                /\ buf' = Append(buf, IF name # key THEN << "file", key, name >>
                                                   ELSE << "file", key >>)
                /\ keysLeft' = keysLeft \ {key}
                /\ UNCHANGED << pc, err >>
              ELSE
                /\ pc' = "exit1"
                /\ err' = "sink"
                /\ UNCHANGED << buf, keysLeft >>
  /\ UNCHANGED << run, prev, log, sortedDirs, di, phase, gen, oi, uniq, funcs >>
  /\ UNCHANGED procVars
  /\ UNCHANGED auxVars

\* writeFiles returns nil: the loop of writeGenerators goes on
WriteFilesReturn ==
  /\ pc = "build"
  /\ phase = "writeFiles"
  /\ keysLeft = {}
  /\ oi' = oi + 1
  /\ phase' = "writeGenerators"
  /\ UNCHANGED << pc, err, puts, run, prev, log, sortedDirs, di, gen, keysLeft, uniq, funcs, buf >>
  /\ UNCHANGED procVars
  /\ UNCHANGED auxVars

\* writeGenerators returns nil: the next generator, or the manifest
WriteGeneratorsReturn ==
  /\ pc = "build"
  /\ phase = "writeGenerators"
  /\ oi > Len(GenObjects)
  /\ IF gen = "configMapGenerator"
     THEN gen' = "secretGenerator" /\ oi' = 1 /\ UNCHANGED phase
     ELSE phase' = "manifest" /\ UNCHANGED << gen, oi >>
  /\ UNCHANGED << pc, err, puts, run, prev, log, sortedDirs, di, keysLeft, uniq, funcs, buf >>
  /\ UNCHANGED procVars
  /\ UNCHANGED auxVars

\* the last statement of kustomizationBuilder.Build, and the loop of
\* Builder.Build around it
WriteManifest ==
  /\ pc = "build"
  /\ phase = "manifest"
  /\ \E ok \in BOOLEAN :
       /\ puts' = Append(puts, Put(CurDir, sKustomizationYaml, buf, ok))
       /\ IF ~ok THEN
            /\ pc' = "exit1"
            /\ err' = "sink"
            /\ UNCHANGED << di, phase >>
          ELSE IF di < Len(sortedDirs) THEN
            /\ di' = di + 1
            /\ phase' = "resolve"
            /\ UNCHANGED << pc, err >>
          ELSE
            /\ pc' = "exit0"
            /\ UNCHANGED << err, di, phase >>
  /\ UNCHANGED << run, prev, log, sortedDirs, gen, oi, keysLeft, uniq, funcs, buf >>
  /\ UNCHANGED procVars
  /\ UNCHANGED auxVars

\* the program is run once more on the same input with a fresh Builder
Rerun ==
  /\ pc = "exit0"
  /\ run = 1
  /\ run' = 2
  /\ prev' = puts
  /\ log' = << >>
  /\ puts' = << >>
  /\ pc' = "process"
  /\ pos' = 0
  /\ scanErr' = "nil"
  /\ dirs' = NewBuilderDirs
  /\ sortedDirs' = << >>
  /\ di' = 0
  /\ phase' = "none"
  /\ gen' = "none"
  /\ oi' = 0
  /\ keysLeft' = {}
  /\ uniq' = {}
  /\ funcs' = NoFuncs
  /\ buf' = << >>
  /\ UNCHANGED << input, err >>
  /\ UNCHANGED auxVars

vars ==
  << input, pos, scanErr, pc, err, dirs, sortedDirs, di, phase, gen, oi, keysLeft,
     uniq, funcs, buf, puts, run, prev, log, stream, rd, sbuf, eof, tokens, cuts,
     dropped, robj, rdir, rname >>

Next ==
  \/ ProcessDocument
  \/ ProcessReturn
  \/ BuildBegin
  \/ DirResolve
  \/ WriteResources
  \/ WriteResourceObject
  \/ WriteGeneratorObject
  \/ WriteFile
  \/ WriteFilesReturn
  \/ WriteGeneratorsReturn
  \/ WriteManifest

Spec == Init /\ [][Next]_vars

\* RerunSpec: the run, followed by a second run on the same input
RerunNext ==
  \/ Next
  \/ Rerun

RerunSpec == Init /\ [][RerunNext]_vars

\* ------------------------------------------------------ the document scanner
\* ScanSpec runs Builder.Process on a stream of bytes: bufio.Scanner with the
\* split function and buffer that newScanner gives it.

yamlSeparator == << "\n", "-", "-", "-" >>

\* scanner.Buffer(buf, 5*1024*1024): the maximum token size, scaled down to
\* the streams of the model
maxTokenSize == 7

ByteAlphabet == {"\n", "-", "a"}

ByteStreams == UNION {[1..n -> ByteAlphabet] : n \in 0..MaxStream}

\* what a split function returns; some is FALSE for a nil token
SplitResult(n, t, s) == [advance |-> n, token |-> t, some |-> s]

\* bytes.Index: the 0-based index of the first occurrence, or -1
Index(data, sep) ==
  LET at(i) == i + Len(sep) - 1 <= Len(data) /\ SubSeq(data, i, i + Len(sep) - 1) = sep
  IN  IF \E i \in 1..Len(data) : at(i)
      THEN (CHOOSE i \in 1..Len(data) : at(i) /\ \A j \in 1..(i - 1) : ~at(j)) - 1
      ELSE -1

\* bytes.IndexByte
IndexByte(data, c) ==
  IF \E i \in 1..Len(data) : data[i] = c
  THEN (CHOOSE i \in 1..Len(data) : data[i] = c /\ \A j \in 1..(i - 1) : data[j] # c) - 1
  ELSE -1

splitYAMLDocument(data, atEOF) ==
  IF atEOF /\ Len(data) = 0 THEN SplitResult(0, << >>, FALSE)
  ELSE
    LET sep == Len(yamlSeparator)
        i0 == Index(data, yamlSeparator)
        i == i0 + sep
        after == SubSeq(data, i + 1, Len(data))
        j == IndexByte(after, "\n")
    IN  IF i0 >= 0 THEN
          IF Len(after) = 0 THEN
            IF atEOF THEN SplitResult(Len(data), SubSeq(data, 1, Len(data) - sep), TRUE)
            ELSE SplitResult(0, << >>, FALSE)
          ELSE IF j >= 0 THEN SplitResult(i + j + 1, SubSeq(data, 1, i - sep), TRUE)
          ELSE SplitResult(0, << >>, FALSE)
        ELSE IF atEOF THEN SplitResult(Len(data), data, TRUE)
        ELSE SplitResult(0, << >>, FALSE)

ScanInit ==
  /\ stream \in ByteStreams
  /\ rd = stream
  /\ sbuf = << >>
  /\ eof = FALSE
  /\ tokens = << >>
  /\ cuts = << >>
  /\ dropped = << >>
  /\ scanErr = "nil"
  /\ pc = "process"
  /\ err = "nil"
  /\ input = << >>
  /\ pos = 0
  /\ dirs = NewBuilderDirs
  /\ BuildIdle
  /\ puts = << >>
  /\ run = 1
  /\ prev = << >>
  /\ log = << >>
  /\ RouteIdle

\* Scan calls the split function when it holds bytes or has seen the end
SplitNow == IF Len(sbuf) > 0 \/ eof THEN splitYAMLDocument(sbuf, eof) ELSE SplitResult(0, << >>, FALSE)

mainVars ==
  << input, pos, dirs, sortedDirs, di, phase, gen, oi, keysLeft, uniq, funcs, buf,
     puts, run, prev, log >>

\* scanner.Scan() returns true: the split function found a token, which the
\* loop body of Process receives
ScanToken ==
  /\ pc = "process"
  /\ SplitNow.some
  /\ tokens' = Append(tokens, SplitNow.token)
  /\ cuts' = Append(cuts, SubSeq(sbuf, Len(SplitNow.token) + 1, SplitNow.advance))
  /\ sbuf' = SubSeq(sbuf, SplitNow.advance + 1, Len(sbuf))
  /\ UNCHANGED << stream, rd, eof, dropped, scanErr, pc, err, robj, rdir, rname >>
  /\ UNCHANGED mainVars

\* Scan needs more bytes and the buffer has room: one Read of the reader,
\* which delivers some bytes, or reports the end of the stream
ScanRead ==
  /\ pc = "process"
  /\ ~eof
  /\ ~SplitNow.some
  /\ Len(sbuf) < maxTokenSize
  /\ \/ /\ rd # << >>
        /\ \E n \in 1..Min(maxTokenSize - Len(sbuf), Len(rd)) :
             /\ sbuf' = sbuf \o SubSeq(rd, 1, n)
             /\ rd' = SubSeq(rd, n + 1, Len(rd))
        /\ UNCHANGED eof
     \/ /\ rd = << >>
        /\ eof' = TRUE
        /\ UNCHANGED << sbuf, rd >>
  /\ UNCHANGED << stream, tokens, cuts, dropped, scanErr, pc, err, robj, rdir, rname >>
  /\ UNCHANGED mainVars

\* Scan needs more bytes and the buffer is full at its maximum size: Scan
\* sets ErrTooLong and returns false; the loop of Process ends and Process
\* returns nil
ScanTooLong ==
  /\ pc = "process"
  /\ ~eof
  /\ ~SplitNow.some
  /\ Len(sbuf) >= maxTokenSize
  /\ scanErr' = "ErrTooLong"
  /\ pc' = "returned"
  /\ err' = "nil"
  /\ UNCHANGED << stream, rd, sbuf, eof, tokens, cuts, dropped, robj, rdir, rname >>
  /\ UNCHANGED mainVars

\* the reader is at its end and the split function returns no token: Scan
\* discards what it holds and returns false; Process returns nil
ScanEnd ==
  /\ pc = "process"
  /\ eof
  /\ ~SplitNow.some
  /\ dropped' = sbuf
  /\ sbuf' = << >>
  /\ pc' = "returned"
  /\ err' = "nil"
  /\ UNCHANGED << stream, rd, eof, tokens, cuts, scanErr, robj, rdir, rname >>
  /\ UNCHANGED mainVars

ScanNext ==
  \/ ScanToken
  \/ ScanRead
  \/ ScanTooLong
  \/ ScanEnd

ScanSpec == ScanInit /\ [][ScanNext]_vars

\* ------------------------------------------------------------ routing alone
\* RouteSpec applies getTargetDir to every resource of a bounded family.

RouteLabelKeys == {lblQComponent, lblComponent, lblQName, lblApp}

\* a label is absent, present and empty, or present with a value
RouteLabelValues == {EmptyStr, << "a" >>, << "b" >>}

RouteLabelMaps ==
  UNION {[ks -> RouteLabelValues] : ks \in SUBSET RouteLabelKeys}

RouteObjects ==
  { Object([Kind |-> k, APIVersion |-> a, Name |-> << "n" >>, Labels |-> l, Raw |-> "r"]) :
      k \in {sCRDKind, sDeployment}, a \in {sCRDApi, sAppsV1}, l \in RouteLabelMaps }

RouteInit ==
  /\ robj \in RouteObjects
  /\ rdir = EmptyStr
  /\ rname = EmptyStr
  /\ pc = "route"
  /\ err = "nil"
  /\ scanErr = "nil"
  /\ input = << >>
  /\ pos = 0
  /\ dirs = NewBuilderDirs
  /\ BuildIdle
  /\ puts = << >>
  /\ run = 1
  /\ prev = << >>
  /\ log = << >>
  /\ ScanIdle

\* Builder.getKustomization calls getTargetDir on the resource
Route ==
  /\ pc = "route"
  /\ rdir' = getTargetDir(robj)
  /\ pc' = "routed"
  /\ UNCHANGED << robj, rname, err, scanErr, stream, rd, sbuf, eof, tokens, cuts, dropped >>
  /\ UNCHANGED mainVars

RouteNext == Route

RouteSpec == RouteInit /\ [][RouteNext]_vars

\* ===================================================================== claims

PutIndexes == 1..Len(puts)

IsManifestPut(i) == puts[i].name = sKustomizationYaml

\* the file groups of a directory, ConfigMap groups first
FileGroups(k) == k.configMapObjects \o k.secretObjects

\* C1: in one Build the sink is never invoked twice for the same
\* (directory, filename) pair: within a directory the names of the resource
\* files, of the generator entry files and of kustomization.yaml are pairwise
\* distinct.
C1_UniqueFilenames ==
  \A i, j \in PutIndexes :
    i # j => ~(puts[i].dir = puts[j].dir /\ puts[i].name = puts[j].name)

\* C1 witness: a Build that ended well for a directory in which a ConfigMap
\* and a Secret share a key, next to a generic resource
C1_Witness ==
  /\ pc = "exit0"
  /\ \E d \in DOMAIN dirs :
       /\ Len(dirs[d].k8sObjects) > 0
       /\ \E c \in Range(dirs[d].configMapObjects), s \in Range(dirs[d].secretObjects) :
            DOMAIN c.files \cap DOMAIN s.files # {}

\* C2: the put of kustomization.yaml is the last put to its directory: every
\* generic resource and every file-group entry of the directory was put
\* before it, and no put to the directory follows it.
C2_ManifestLast ==
  \A j \in PutIndexes :
    IsManifestPut(j) =>
      LET d == puts[j].dir
          before == {i \in 1..(j - 1) : puts[i].dir = d /\ puts[i].ok}
      IN  /\ \A i \in (j + 1)..Len(puts) : puts[i].dir # d
          /\ \A o \in Range(dirs[d].k8sObjects) :
               \E i \in before : puts[i].data = Bytes(o.Raw)
          /\ \A g \in Range(FileGroups(dirs[d])) :
               \A key \in DOMAIN g.files :
                 \E i \in before : puts[i].data = Bytes(g.files[key])

\* C2 witness: the manifest of a directory with a resource file and file
\* entries was put, and later the manifest of another directory
C2_Witness ==
  \E j1, j2 \in PutIndexes :
    /\ j1 < j2
    /\ IsManifestPut(j1)
    /\ IsManifestPut(j2)
    /\ Len(dirs[puts[j1].dir].k8sObjects) > 0
    /\ Len(FileGroups(dirs[puts[j1].dir])) > 0

\* the document decodes to a resource with kind, apiVersion and name
HasIdentity(u) == parseYAMLObject(u) = "obj"

IsFileGroupKind(u) == u.APIVersion = sV1 /\ u.Kind \in {sConfigMap, sSecret}

\* how often the document occurs in the input stream
CountInInput(u) == Cardinality({i \in 1..Len(input) : input[i] = u})

\* how often the output holds the document: as a resource file with its raw
\* bytes, or as a generator section with its name in a manifest
CountInOutput(u) ==
  IF IsFileGroupKind(u)
  THEN Cardinality({ij \in PutIndexes \X (1..40) :
                      /\ IsManifestPut(ij[1])
                      /\ puts[ij[1]].ok
                      /\ ij[2] <= Len(puts[ij[1]].data)
                      /\ puts[ij[1]].data[ij[2]] = << "name", u.Name >>})
  ELSE Cardinality({i \in PutIndexes :
                      ~IsManifestPut(i) /\ puts[i].ok /\ puts[i].data = Bytes(u.Raw)})

\* C3: completeness. After Process and a successful Build every input
\* document with kind, apiVersion and name is in the output exactly once, and
\* a document without one of them gives no output and no error.
C3_Completeness ==
  /\ pc = "exit0" =>
       \A u \in Range(input) :
         CountInOutput(u) = IF HasIdentity(u) THEN CountInInput(u) ELSE 0
  /\ (pc = "exit1" /\ err \in {"yaml", "base64"}) =>
       parseYAMLObject(input[pos]) # "skip"

K8sNames(k) == {removeK8sObjectsPrefix(funcs.k8s, o) : o \in Range(k.k8sObjects)}

GroupNames(objects, fun) ==
  UNION {{removeGeneratorObjectPrefix(fun, g.k8sObject, key) : key \in DOMAIN g.files} :
           g \in Range(objects)}

C5_Determinism ==
  (run = 2 /\ pc = "exit0") =>
    /\ \A i \in PutIndexes : \E j \in 1..Len(prev) : puts[i] = prev[j]
    /\ \A j \in 1..Len(prev) : \E i \in PutIndexes : puts[i] = prev[j]

HasInvalidBase64(u) ==
  /\ u.yamlOK
  /\ u.APIVersion = sV1
  /\ \/ u.Kind = sConfigMap /\ \E k \in DOMAIN u.BinaryData : ~Base64Valid(u.BinaryData[k])
     \/ u.Kind = sSecret /\ \E k \in DOMAIN u.Data : ~Base64Valid(u.Data[k])

\* C6: a ConfigMap binaryData value or Secret data value in the stream that
\* is not valid base64 makes Process return an error: main never reaches
\* Build and the sink is never invoked.
C6_InvalidBase64Aborts ==
  (\E i \in 1..Len(input) : HasInvalidBase64(input[i])) =>
    /\ puts = << >>
    /\ pc \in {"process", "exit1"}

\* C7: a document that exceeds the scanner's maximum buffer size makes
\* Process return a fatal error: Process never returns nil after the scanner
\* stopped with ErrTooLong.
C7_OversizedDocumentIsFatal ==
  (pc = "returned" /\ scanErr = "ErrTooLong" /\ Len(stream) > maxTokenSize) => err # "nil"

\* C8: the splitter cuts the stream only at a line that is exactly "---":
\* the bytes it removes between two documents are the separator line, "\n---"
\* followed by a newline or by the end of the stream, and nothing else.
C8_SplitOnlyAtSeparatorLine ==
  \A i \in 1..Len(cuts) :
    \/ cuts[i] = << >>
    \/ cuts[i] = yamlSeparator \o << "\n" >>
    \/ cuts[i] = yamlSeparator /\ i = Len(cuts) /\ rd = << >> /\ sbuf = << >>

RECURSIVE JoinTokens(_, _, _)
JoinTokens(ts, cs, i) ==
  IF i > Len(ts) THEN << >> ELSE ts[i] \o cs[i] \o JoinTokens(ts, cs, i + 1)

\* C9: at the end of a stream that fits the buffer every byte has been
\* returned in a document or removed as a separator: the trailing segment is
\* the last document, whatever its last line holds.
C9_TrailingSegmentReturned ==
  (pc = "returned" /\ scanErr = "nil") => JoinTokens(tokens, cuts, 1) = stream

\* the labels that decide the directory, in the order of their priority
RoutePriority == << lblQComponent, lblComponent, lblQName, lblApp >>

\* C10: routing is a total function of the resource: a
\* CustomResourceDefinition of apiextensions.k8s.io/v1 goes to "crd" whatever
\* its labels are, any other resource to the value of its first non-empty
\* label in the priority order, and to the root "" when there is none.
C10_Routing ==
  pc = "routed" =>
    LET nonEmpty == {i \in 1..Len(RoutePriority) : Lookup(robj.Labels, RoutePriority[i]) # EmptyStr}
        first == CHOOSE i \in nonEmpty : \A j \in nonEmpty : i <= j
    IN  /\ (robj.APIVersion = sCRDApi /\ robj.Kind = sCRDKind) => rdir = sCrd
        /\ ~(robj.APIVersion = sCRDApi /\ robj.Kind = sCRDKind) =>
             /\ nonEmpty # {} => rdir = robj.Labels[RoutePriority[first]]
             /\ nonEmpty = {} => rdir = EmptyStr

\* C10 witness: a resource that is no definition carries an empty qualified
\* component label and two different lower-priority labels, and was routed
C10_Witness ==
  /\ pc = "routed"
  /\ robj.Kind # sCRDKind
  /\ lblQComponent \in DOMAIN robj.Labels
  /\ Lookup(robj.Labels, lblQComponent) = EmptyStr
  /\ Lookup(robj.Labels, lblComponent) = << "a" >>
  /\ Lookup(robj.Labels, lblApp) = << "b" >>
  /\ rdir = << "a" >>

\* --------------------------------------------------------- resolution alone
\* ResolveSpec runs the three selections of kustomizationBuilder.Build on the
\* root directory of a Builder that Process filled from a bounded family of
\* resources: names that share a prefix up to a separator, names that differ
\* only in '-' against '_', instance labels, a namespaced twin, definition
\* kinds outside apiextensions.k8s.io/v1, file groups whose keys meet the
\* names of the resources, and a sub-directory whose name is a filename.

MaxBatch == 2

sCRDApiBeta ==
  << "a", "p", "i", "e", "x", "t", "e", "n", "s", "i", "o", "n", "s", ".",
     "k", "8", "s", ".", "i", "o", "/", "v", "1", "b", "e", "t", "a", "1" >>

ResolveNames == { << "s", "-", "d" >>, << "s", "-", "e" >>, << "s", "_", "d" >> }

ResolveLabels == { EmptyMap, (lblInstance :> << "s" >>) }

ResolveWorkloads ==
  { Object([Kind |-> sDeployment, APIVersion |-> sAppsV1, Name |-> n, Labels |-> l,
            Raw |-> "dep"]) : n \in ResolveNames, l \in ResolveLabels }
  \cup
  { Object([Kind |-> sService, APIVersion |-> sV1, Name |-> << "s", "-", "d" >>,
            Raw |-> "svc"]) }

\* the same Deployment as one of ResolveWorkloads, in another namespace
resTwin ==
  Object([Kind |-> sDeployment, APIVersion |-> sAppsV1, Name |-> << "s", "-", "d" >>,
          Namespace |-> << "n" >>, Raw |-> "twin"])

ResolveDefinitions ==
  { Object([Kind |-> sCRDKind, APIVersion |-> sCRDApiBeta, Name |-> p \o << ".", "g" >>,
            Group |-> << "g" >>, Plural |-> p, Raw |-> "crd"]) :
      p \in { << "w" >>, << "v" >> } }

ResolveGenerics == ResolveWorkloads \cup {resTwin} \cup ResolveDefinitions

resCmA ==
  Object([Kind |-> sConfigMap, APIVersion |-> sV1, Name |-> << "c", "-", "a" >>,
          Data |-> (<< "x", "-", "k" >> :> "1") @@ (<< "x", "-", "p" >> :> "2"),
          Raw |-> "cmA"])

resCmB ==
  Object([Kind |-> sConfigMap, APIVersion |-> sV1, Name |-> << "c", "-", "b" >>,
          Data |-> (<< "d", ".", "y", "a", "m", "l" >> :> "3"), Raw |-> "cmB"])

\* resCmA's name in another namespace, with one of its keys
resCmTwin ==
  Object([Kind |-> sConfigMap, APIVersion |-> sV1, Name |-> << "c", "-", "a" >>,
          Namespace |-> << "n" >>, Data |-> (<< "x", "-", "k" >> :> "4"), Raw |-> "cmT"])

resSec ==
  Object([Kind |-> sSecret, APIVersion |-> sV1, Name |-> << "t" >>,
          StringData |-> (<< "x", "-", "k" >> :> "pw"), Raw |-> "sec"])

\* routed to the sub-directory "d.yaml"
resSub ==
  Object([Kind |-> sService, APIVersion |-> sV1, Name |-> << "z" >>,
          Labels |-> (lblApp :> << "d", ".", "y", "a", "m", "l" >>), Raw |-> "sub"])

ResolveStreams ==
  { g \o c \o t :
      g \in UNION {[1..n -> ResolveGenerics] : n \in 0..MaxBatch},
      c \in { << >>, << resCmA >>, << resCmA, resCmB >>, << resCmA, resCmTwin >> },
      t \in { << >>, << resSec >>, << resSec, resSub >> } }

\* Builder.Process on a stream in which every document is a resource with
\* valid payloads: the directory map after the last document
RECURSIVE ProcessAll(_, _, _)
ProcessAll(ds, docs, i) ==
  IF i > Len(docs) THEN ds
  ELSE ProcessAll(handleResourceType(ds, docs[i]).dirs, docs, i + 1)

\* Process has returned and Builder.Build is about to call Build on the
\* root directory, the first of the sorted list
ResolveInit ==
  /\ input \in ResolveStreams
  /\ pos = Len(input)
  /\ scanErr = "nil"
  /\ pc = "build"
  /\ err = "nil"
  /\ dirs = ProcessAll(NewBuilderDirs, input, 1)
  /\ sortedDirs = SortStrings(DOMAIN dirs)
  /\ di = 1
  /\ phase = "resolve"
  /\ gen = "none"
  /\ oi = 0
  /\ keysLeft = {}
  /\ uniq = {}
  /\ funcs = NoFuncs
  /\ buf = << >>
  /\ puts = << >>
  /\ run = 1
  /\ prev = << >>
  /\ log = [i \in 1..Len(input) |-> "ingest"] \o << "finalize" >>
  /\ ScanIdle
  /\ RouteIdle

ResolveNext == DirResolve

ResolveSpec == ResolveInit /\ [][ResolveNext]_vars

\* the names a strategy gives to a batch of generic resources, by position
K8sStrategyNames(objects, i) ==
  [j \in 1..Len(objects) |-> K8sObjectFuncs(i, objects[j])]

\* the names a strategy gives to the entries of a batch of file groups, by
\* (group, key)
FilesStrategyNames(objects, i) ==
  [p \in {q \in (1..Len(objects)) \X UNION {DOMAIN objects[g].files : g \in 1..Len(objects)} :
            q[2] \in DOMAIN objects[q[1]].files} |->
     FilesFuncs(i, objects[p[1]].k8sObject, p[2])]

\* the three acceptance conditions on the names of a batch
Accepted(names, reserved) ==
  \A p \in DOMAIN names :
    /\ names[p] # EmptyStr
    /\ names[p] \notin reserved
    /\ \A q \in DOMAIN names : q # p => names[q] # names[p]

\* the first strategy of the list that is accepted, 0 when none is
FirstAcceptedK8s(objects, reserved) ==
  LET acc == {i \in 1..NumK8sObjectFuncs : Accepted(K8sStrategyNames(objects, i), reserved)}
  IN  IF acc = {} THEN 0 ELSE CHOOSE i \in acc : \A k \in acc : i <= k

FirstAcceptedFiles(objects, reserved) ==
  LET acc == {i \in 1..NumFilesFuncs : Accepted(FilesStrategyNames(objects, i), reserved)}
  IN  IF acc = {} THEN 0 ELSE CHOOSE i \in acc : \A k \in acc : i <= k

\* the selections of the current directory have been made
ResolvedHere ==
  /\ phase \notin {"none", "begin"}
  /\ phase = "resolve" => (pc = "exit1" /\ err = "naming")

NamingFailed == pc = "exit1" /\ err = "naming"

\* C11: each batch gets the first strategy of its list that is accepted
\* (names all non-empty, pairwise distinct, none reserved), on the reserved
\* set the batches before it left behind; the unresolvable-naming error is
\* returned if and only if some batch has no accepted strategy.
C11_FirstAcceptedStrategy ==
  ResolvedHere =>
    LET u0 == {sKustomizationYaml} \cup Range(CurK.resources)
        f1 == FirstAcceptedK8s(CurK.k8sObjects, u0)
        u1 == u0 \cup K8sNames(CurK)
        f2 == FirstAcceptedFiles(CurK.configMapObjects, u1)
        u2 == u1 \cup GroupNames(CurK.configMapObjects, funcs.cm)
        f3 == FirstAcceptedFiles(CurK.secretObjects, u2)
    IN  /\ funcs.k8s.id = f1
        /\ f1 # 0 => funcs.cm.id = f2
        /\ (f1 # 0 /\ f2 # 0) => funcs.sec.id = f3
        /\ NamingFailed <=> (f1 = 0 \/ f2 = 0 \/ f3 = 0)

\* C11 witness: the resources took the fourth strategy and the ConfigMap
\* entries a strategy after the first, the earlier ones being rejected
C11_Witness ==
  /\ pc = "build"
  /\ phase = "writeResources"
  /\ funcs.k8s.id = 4
  /\ funcs.cm.id > 1

\* the reserved set each selection of the current directory started from
ReservedBeforeK8s == {sKustomizationYaml} \cup Range(CurK.resources)

ReservedBeforeCm == ReservedBeforeK8s \cup K8sNames(CurK)

ReservedBeforeSec == ReservedBeforeCm \cup GroupNames(CurK.configMapObjects, funcs.cm)

\* the names assigned to the batches: what the selected functions return
K8sAssigned(objects, fun) ==
  [j \in DOMAIN K8sStrategyNames(objects, fun.id) |-> removeK8sObjectsPrefix(fun, objects[j])]

FilesAssigned(objects, fun) ==
  [p \in DOMAIN FilesStrategyNames(objects, fun.id) |->
     removeGeneratorObjectPrefix(fun, objects[p[1]].k8sObject, p[2])]

IsSeparator(c) == c \in {"-", "_"}

Fold(c) == IF c = "_" THEN "-" ELSE c

\* the length of the longest prefix all the names share, '-' and '_' being
\* the same character; the whole name when there is one name
CommonLen(names) ==
  IF DOMAIN names = {} THEN 0
  ELSE LET minLen == CHOOSE n \in {Len(names[p]) : p \in DOMAIN names} :
                       \A p \in DOMAIN names : n <= Len(names[p])
           differ == {i \in 1..minLen :
                        \E p, q \in DOMAIN names : Fold(names[p][i]) # Fold(names[q][i])}
       IN  IF differ = {} THEN minLen
           ELSE (CHOOSE i \in differ : \A k \in differ : i <= k) - 1

\* the position of the last separator within the first n characters, 0 when
\* there is none
LastSeparator(names, n) ==
  LET ps == {i \in 1..n : \E p \in DOMAIN names : IsSeparator(names[p][i])}
  IN  IF ps = {} THEN 0 ELSE CHOOSE i \in ps : \A k \in ps : k <= i

\* the names without their first n characters
Refined(names, n) == [p \in DOMAIN names |-> SubSeq(names[p], n + 1, Len(names[p]))]

\* prefix compression of an accepted batch whose common prefix has length l
Compressed(names, reserved, l) ==
  LET cut == LastSeparator(names, l)
  IN  IF cut > 0 /\ Accepted(Refined(names, cut), reserved)
      THEN Refined(names, cut)
      ELSE names

\* C12 as claimed: the names assigned to a batch are those of the selected
\* strategy, compressed by the longest common prefix of the batch's names
\* (the definition-kind strategy apart), whatever the size of the batch.
C12_PrefixCompression ==
  (pc = "build" /\ phase = "writeResources") =>
    LET kn == K8sStrategyNames(CurK.k8sObjects, funcs.k8s.id)
        cn == FilesStrategyNames(CurK.configMapObjects, funcs.cm.id)
        sn == FilesStrategyNames(CurK.secretObjects, funcs.sec.id)
    IN  /\ funcs.k8s.id # 1 =>
             K8sAssigned(CurK.k8sObjects, funcs.k8s)
               = Compressed(kn, ReservedBeforeK8s, CommonLen(kn))
        /\ FilesAssigned(CurK.configMapObjects, funcs.cm)
             = Compressed(cn, ReservedBeforeCm, CommonLen(cn))
        /\ FilesAssigned(CurK.secretObjects, funcs.sec)
             = Compressed(sn, ReservedBeforeSec, CommonLen(sn))

\* the common prefix as the resolver takes it: empty for a batch of one name
CommonLenOfSeveral(names) ==
  IF Cardinality(DOMAIN names) < 2 THEN 0 ELSE CommonLen(names)

\* C12 amended: prefix compression applies to a batch of two or more names.
\* Their longest common prefix is taken with '-' and '_' equal; if it holds a
\* separator, the names without the prefix up to its last separator are
\* assigned exactly when they are all non-empty, pairwise distinct and not
\* reserved, and otherwise the unrefined names. A batch of one name, and a
\* batch named by the definition-kind strategy, keeps its unrefined names.
C12_PrefixCompressionOfSeveral ==
  (pc = "build" /\ phase = "writeResources") =>
    LET kn == K8sStrategyNames(CurK.k8sObjects, funcs.k8s.id)
        cn == FilesStrategyNames(CurK.configMapObjects, funcs.cm.id)
        sn == FilesStrategyNames(CurK.secretObjects, funcs.sec.id)
    IN  /\ K8sAssigned(CurK.k8sObjects, funcs.k8s)
             = IF funcs.k8s.id = 1 THEN kn
               ELSE Compressed(kn, ReservedBeforeK8s, CommonLenOfSeveral(kn))
        /\ FilesAssigned(CurK.configMapObjects, funcs.cm)
             = Compressed(cn, ReservedBeforeCm, CommonLenOfSeveral(cn))
        /\ FilesAssigned(CurK.secretObjects, funcs.sec)
             = Compressed(sn, ReservedBeforeSec, CommonLenOfSeveral(sn))

\* C12 witness: the resources were named by the bare short name and the
\* ConfigMap entries by their keys, both without the prefix they share
C12_Witness ==
  /\ pc = "build"
  /\ phase = "writeResources"
  /\ funcs.k8s.id = 3
  /\ funcs.k8s.trim = << "s", "-" >>
  /\ funcs.cm.id = 1
  /\ funcs.cm.trim = << "x", "-" >>

\* no two documents of the stream are the same Kubernetes resource: they
\* differ in kind, apiVersion, namespace or name
DistinctResources ==
  \A i, j \in 1..Len(input) :
    i # j => << input[i].Kind, input[i].APIVersion, input[i].Namespace, input[i].Name >>
               # << input[j].Kind, input[j].APIVersion, input[j].Namespace, input[j].Name >>

\* C13: the last strategy of each list is always accepted: for the generic
\* resources of a directory the names of strategy 5, and for its ConfigMap
\* and Secret entries the names of strategy 4, are non-empty, pairwise
\* distinct and not reserved, so Build never returns the 'no unique
\* filename' error. Stated for streams of distinct resources.
C13_FallbackAlwaysAccepted ==
  DistinctResources =>
  /\ ~NamingFailed
  /\ ResolvedHere =>
       /\ Accepted(K8sStrategyNames(CurK.k8sObjects, NumK8sObjectFuncs), ReservedBeforeK8s)
       /\ funcs.k8s.id # 0 =>
            Accepted(FilesStrategyNames(CurK.configMapObjects, NumFilesFuncs), ReservedBeforeCm)
       /\ (funcs.k8s.id # 0 /\ funcs.cm.id # 0) =>
            Accepted(FilesStrategyNames(CurK.secretObjects, NumFilesFuncs), ReservedBeforeSec)

\* --------------------------------------------------------- short name alone
\* ShortSpec applies getShortName to every resource of a bounded family:
\* names over an alphabet with both separators and the colon, with and
\* without an instance label.

MaxName == 3

ShortAlphabet == {"s", "d", "-", "_", ":"}

ShortNames == UNION {[1..n -> ShortAlphabet] : n \in 1..MaxName}

\* the label is absent, present and empty, or present with a value
ShortLabels ==
  {EmptyMap} \cup
  {(lblInstance :> v) : v \in {EmptyStr, << "s" >>, << "s", "_" >>, << "s", "-", "d" >>}}

ShortObjects ==
  { Object([Kind |-> sService, APIVersion |-> sV1, Name |-> n, Labels |-> l, Raw |-> "r"]) :
      n \in ShortNames, l \in ShortLabels }

ShortInit ==
  /\ robj \in ShortObjects
  /\ rdir = EmptyStr
  /\ rname = EmptyStr
  /\ pc = "name"
  /\ err = "nil"
  /\ scanErr = "nil"
  /\ input = << >>
  /\ pos = 0
  /\ dirs = NewBuilderDirs
  /\ BuildIdle
  /\ puts = << >>
  /\ run = 1
  /\ prev = << >>
  /\ log = << >>
  /\ ScanIdle

\* a naming strategy calls getShortName on the resource
ShortName ==
  /\ pc = "name"
  /\ rname' = getShortName(robj)
  /\ pc' = "named"
  /\ UNCHANGED << robj, rdir, err, scanErr, stream, rd, sbuf, eof, tokens, cuts, dropped >>
  /\ UNCHANGED mainVars

ShortNext == ShortName

ShortSpec == ShortInit /\ [][ShortNext]_vars

\* s begins with exactly the characters of p
HasPrefix(s, p) == Len(s) >= Len(p) /\ SubSeq(s, 1, Len(p)) = p

\* C14: the short name is metadata.name without the prefix '<instance>-',
\* removed only when the instance label is non-empty and the name begins
\* with exactly that value followed by a hyphen, and with every ':'
\* replaced by '_'.
C14_ShortName ==
  pc = "named" =>
    LET instance == Lookup(robj.Labels, lblInstance)
        prefix == instance \o << "-" >>
        name == IF instance # EmptyStr /\ HasPrefix(robj.Name, prefix)
                THEN SubSeq(robj.Name, Len(prefix) + 1, Len(robj.Name))
                ELSE robj.Name
    IN  rname = [i \in 1..Len(name) |-> IF name[i] = ":" THEN "_" ELSE name[i]]

\* ------------------------------------------------- the Builder as a library
\* ApiSpec: a caller other than main keeps the Builder after Build has
\* returned and calls its exported methods again. Process and Build hold no
\* flag that records a finished Build, so both run as on a fresh Builder,
\* on the directories accumulated so far.

MaxLog == 4

ApiUniverse == {docSvc, docCm, docNoise}

ApiStreams == UNION {[1..n -> ApiUniverse] : n \in 0..1}

ApiInit ==
  /\ input \in ApiStreams
  /\ pos = 0
  /\ scanErr = "nil"
  /\ pc = "process"
  /\ err = "nil"
  /\ dirs = NewBuilderDirs
  /\ BuildIdle
  /\ puts = << >>
  /\ run = 1
  /\ prev = << >>
  /\ log = << >>
  /\ ScanIdle
  /\ RouteIdle

\* Build has returned nil; the caller feeds another stream to Process
ProcessAgain ==
  /\ pc = "exit0"
  /\ Len(log) < MaxLog
  /\ input' \in ApiStreams
  /\ pos' = 0
  /\ pc' = "process"
  /\ UNCHANGED << scanErr, err, dirs, puts, run, prev, log >>
  /\ UNCHANGED buildVars
  /\ UNCHANGED auxVars

\* Build has returned nil; the caller calls Build once more
BuildAgain ==
  /\ pc = "exit0"
  /\ Len(log) < MaxLog
  /\ pc' = "build"
  /\ phase' = "begin"
  /\ UNCHANGED << err, puts, run, prev, log >>
  /\ UNCHANGED << sortedDirs, di, gen, oi, keysLeft, uniq, funcs, buf >>
  /\ UNCHANGED procVars
  /\ UNCHANGED auxVars

ApiNext ==
  \/ Next
  \/ ProcessAgain
  \/ BuildAgain

ApiSpec == ApiInit /\ [][ApiNext]_vars

\* C15: on one Builder, whatever Process and Build calls are made,
\* finalization runs at most once and no document is ingested after a
\* finalization has begun.
C15_FinalizeOnce ==
  /\ Cardinality({i \in 1..Len(log) : log[i] = "finalize"}) <= 1
  /\ \A i, j \in 1..Len(log) : (i < j /\ log[i] = "finalize") => log[j] # "ingest"

\* Build has returned an error
BuildFailed == pc = "exit1" /\ err \in {"naming", "sink"}

\* C16: Build returns a fatal error at once. A put that failed is the last
\* call of the sink; when the naming of a directory is unresolvable nothing
\* was put to that directory or to a later one; and the directories before
\* the failing one keep what was written, manifest included.
C16_FatalErrorStopsBuild ==
  /\ \A i \in PutIndexes :
       ~puts[i].ok => (i = Len(puts) /\ pc = "exit1" /\ err = "sink")
  /\ NamingFailed =>
       \A i \in PutIndexes :
         puts[i].ok /\ \E k \in 1..(di - 1) : puts[i].dir = sortedDirs[k]
  /\ BuildFailed =>
       /\ \A i \in PutIndexes : \E k \in 1..di : puts[i].dir = sortedDirs[k]
       /\ \A k \in 1..(di - 1) :
            \E i \in PutIndexes :
              puts[i].dir = sortedDirs[k] /\ IsManifestPut(i) /\ puts[i].ok

\* C16 witness: the root directory was written, then the resources of a
\* sub-directory had no unique names
C16_Witness ==
  /\ NamingFailed
  /\ di = 2
  /\ Len(CurK.k8sObjects) > 1
  /\ \E i \in PutIndexes : puts[i].dir = EmptyStr /\ IsManifestPut(i)

\* the put i handed the file n of directory d to the sink, which took it
Produced(i, d, n) == puts[i].dir = d /\ puts[i].name = n /\ puts[i].ok

\* C17: when Build has returned, with nil or with an error of the sink (the
\* fatal error that no input can exclude), every manifest
\* that was written references only what the run produced: each filename it
\* lists was put to its directory before it, and each sub-directory it lists
\* has its own kustomization.yaml.
C17_ManifestReferencesProduced ==
  (pc = "exit0" \/ (pc = "exit1" /\ err = "sink")) =>
    \A j \in PutIndexes :
      (IsManifestPut(j) /\ puts[j].ok) =>
        LET d == puts[j].dir
            lines == puts[j].data
        IN  \A l \in 1..Len(lines) :
              /\ lines[l][1] = "resource" =>
                   \/ \E i \in 1..(j - 1) : Produced(i, d, lines[l][2])
                   \/ /\ lines[l][2] \in Range(dirs[d].resources)
                      /\ \E i \in PutIndexes : Produced(i, lines[l][2], sKustomizationYaml)
              /\ lines[l][1] = "file" =>
                   \E i \in 1..(j - 1) : Produced(i, d, lines[l][Len(lines[l])])

\* the sub-directory references recorded on the root aggregator
RootResources == dirs[EmptyStr].resources

\* C18: the root's sub-directory list holds each non-root directory exactly
\* once, and in the root directory no filename assigned to a generic
\* resource or to a ConfigMap or Secret entry, and no file put there, is the
\* name of a sub-directory reference.
C18_RootNamesAvoidSubDirectories ==
  /\ Range(RootResources) = DOMAIN dirs \ {EmptyStr}
  /\ \A i, j \in 1..Len(RootResources) : RootResources[i] = RootResources[j] => i = j
  /\ (pc = "build" /\ phase \notin {"none", "begin", "resolve"} /\ CurDir = EmptyStr) =>
       (K8sNames(CurK) \cup GroupNames(CurK.configMapObjects, funcs.cm)
          \cup GroupNames(CurK.secretObjects, funcs.sec)) \cap Range(RootResources) = {}
  /\ \A i \in PutIndexes :
       puts[i].dir = EmptyStr => puts[i].name \notin Range(RootResources)

\* C18 witness: a ConfigMap entry of the root has the key of a sub-directory's
\* name and was put under another name
C18_Witness ==
  /\ pc = "build"
  /\ phase = "manifest"
  /\ CurDir = EmptyStr
  /\ \E g \in Range(CurK.configMapObjects) :
       \E key \in DOMAIN g.files :
         /\ key \in Range(RootResources)
         /\ \E i \in PutIndexes :
              puts[i].dir = EmptyStr /\ puts[i].data = Bytes(g.files[key]) /\ puts[i].name # key

====
